---- MODULE Spec2Model ----
(***************************************************************************)
(* Model of the tangram validation engine of src/main.py:                  *)
(*   validate_tangram       the syntactic validator of one encoding        *)
(*   validate_tangram_pair  the position-by-position pair validator        *)
(*   validate_tangrams      the dataset validator (two phases)             *)
(* A tangram string is a sequence of one-character strings.  A raised      *)
(* exception is a record [exc, msg, args, cause]; OK is "no exception".    *)
(***************************************************************************)
EXTENDS Integers, Sequences, FiniteSets, TLC

VARIABLES
    wz_tangrams,    \* list of <<name, tangram>>: the wz dict in iteration order
    codm_tangrams,  \* list of <<name, tangram>>: the codm dict in iteration order
    mapping,        \* list of <<wz name, codm name>>: the OrderedDict mapping
    pc,             \* position of the running function
    tangram_set,    \* "wz" or "codm": the set the phase-1 loop is in
    k,              \* 1-based position of the current loop in its list
    validated,      \* <<set, name>> of the entries validate_tangram accepted in this run
    pair_args,      \* arguments of the latest validate_tangram_pair call
    tangram1,       \* argument of a stand-alone validator call
    tangram2,       \* second argument of a stand-alone pair call
    result          \* the exception raised, or OK

vars == <<wz_tangrams, codm_tangrams, mapping, pc, tangram_set, k, validated,
          pair_args, tangram1, tangram2, result>>

----------------------------------------------------------------------------
(* Bounds of the model *)

MaxLen == 7
NumEncodings == 4

(* Program constants *)

TANGRAM_SIZE == 6
COLOR_COUNT == 4
ARROW_COUNT == 2

----------------------------------------------------------------------------
(* Exceptions *)

OK == [exc |-> "none", msg |-> "", args |-> <<>>, cause |-> <<>>]

ValidationException(m, a) ==
    [exc |-> "ValidationException", msg |-> m, args |-> a, cause |-> <<>>]

\* raise ValidationException(...) from e
ValidationExceptionFrom(m, a, e) ==
    [exc |-> "ValidationException", msg |-> m, args |-> a, cause |-> <<e>>]

KeyError(key) ==
    [exc |-> "KeyError", msg |-> "", args |-> <<key>>, cause |-> <<>>]

----------------------------------------------------------------------------
(* Fixed tables and letter classes *)

\* The table with a wrong opposite for "D".
ARROW_OPPOSITES_typo == [l \in {"P", "U", "S", "D"} |->
    CASE l = "P" -> "S" [] l = "U" -> "D" [] l = "S" -> "P" [] l = "D" -> "P"]

ARROW_OPPOSITES == [l \in {"P", "U", "S", "D"} |->
    CASE l = "P" -> "S" [] l = "U" -> "D" [] l = "S" -> "P" [] l = "D" -> "U"]

\* The color test with "B" left out.
is_color_noB(letter) == letter \in {"R", "Y"}

is_color(letter) == letter \in {"R", "Y", "B"}

\* A validator whose loop ends in a bare else: every non-color is an arrow.
is_arrow_else(letter) == ~is_color(letter)

is_arrow(letter) == letter \in DOMAIN ARROW_OPPOSITES

----------------------------------------------------------------------------
(* validate_tangram *)

\* The for loop of validate_tangram from position i on, with the counts so
\* far: the exception of the first letter that is neither a color nor an
\* arrow, else the two counts.
RECURSIVE count_letters(_, _, _, _)
count_letters(tangram, i, color_count, arrow_count) ==
    IF i > Len(tangram)
    THEN [raised |-> OK, color_count |-> color_count, arrow_count |-> arrow_count]
    ELSE IF is_color(tangram[i])
         THEN count_letters(tangram, i + 1, color_count + 1, arrow_count)
         ELSE IF is_arrow(tangram[i])
              THEN count_letters(tangram, i + 1, color_count, arrow_count + 1)
              ELSE [raised |-> ValidationException("Invalid tangram letter",
                                                   <<tangram[i]>>),
                    color_count |-> color_count, arrow_count |-> arrow_count]

\* validate_tangram with the two count tests in the other order.
validate_tangram_arrows_first(tangram) ==
    IF Len(tangram) # TANGRAM_SIZE
    THEN ValidationException("Tangram size incorrect", <<>>)
    ELSE LET c == count_letters(tangram, 1, 0, 0) IN
         IF c.raised # OK THEN c.raised
         ELSE IF c.arrow_count # ARROW_COUNT
              THEN ValidationException("Incorrect arrow count", <<c.arrow_count>>)
              ELSE IF c.color_count # COLOR_COUNT
                   THEN ValidationException("Incorrect color count", <<c.color_count>>)
                   ELSE OK

validate_tangram(tangram) ==
    IF Len(tangram) # TANGRAM_SIZE
    THEN ValidationException("Tangram size incorrect", <<>>)
    ELSE LET c == count_letters(tangram, 1, 0, 0) IN
         IF c.raised # OK THEN c.raised
         ELSE IF c.color_count # COLOR_COUNT
              THEN ValidationException("Incorrect color count", <<c.color_count>>)
              ELSE IF c.arrow_count # ARROW_COUNT
                   THEN ValidationException("Incorrect arrow count", <<c.arrow_count>>)
                   ELSE OK

----------------------------------------------------------------------------
(* validate_tangram_pair *)

\* One iteration of the loop body on the letters l1, l2 at 0-based index i.
pair_letters(i, l1, l2) ==
    IF is_color(l1)
    THEN IF ~is_color(l2)
         THEN ValidationException("Arrow color mismatch, index", <<i, l1, l2>>)
         ELSE OK
    ELSE IF ~is_arrow(l2)
         THEN ValidationException("Arrow color mismatch, index", <<i, l1, l2>>)
         ELSE IF l1 \notin DOMAIN ARROW_OPPOSITES
              THEN KeyError(l1)
              ELSE IF ARROW_OPPOSITES[l1] # l2
                   THEN ValidationException("Non-matching arrows, index", <<i, l1, l2>>)
                   ELSE OK

Min(a, b) == IF a <= b THEN a ELSE b

\* enumerate(zip(tangram1, tangram2)) from 1-based position i on: zip stops
\* at the shorter string, the loop at the first exception.
RECURSIVE pair_loop(_, _, _)
pair_loop(t1, t2, i) ==
    IF i > Min(Len(t1), Len(t2))
    THEN OK
    ELSE LET r == pair_letters(i - 1, t1[i], t2[i]) IN
         IF r # OK THEN r ELSE pair_loop(t1, t2, i + 1)

\* The loop run from the last position down: reports the last mismatch.
RECURSIVE pair_loop_backwards(_, _, _)
pair_loop_backwards(t1, t2, i) ==
    IF i < 1
    THEN OK
    ELSE LET r == pair_letters(i - 1, t1[i], t2[i]) IN
         IF r # OK THEN r ELSE pair_loop_backwards(t1, t2, i - 1)

validate_tangram_pair_backwards(t1, t2) ==
    pair_loop_backwards(t1, t2, Min(Len(t1), Len(t2)))

validate_tangram_pair(t1, t2) == pair_loop(t1, t2, 1)

----------------------------------------------------------------------------
(* Inputs *)

Colors == {"R", "Y", "B"}
Arrows == {"P", "U", "S", "D"}

\* Strings of every length up to MaxLen, over colors, arrows and a letter
\* of neither class.
SoloLetters == {"R", "B", "P", "D", "X"}

Strings == UNION {[1..n -> SoloLetters] : n \in 0..MaxLen}

NumColors(t) == Cardinality({i \in DOMAIN t : t[i] \in Colors})
NumArrows(t) == Cardinality({i \in DOMAIN t : t[i] \in Arrows})

WellFormed(t) ==
    Len(t) = TANGRAM_SIZE /\ NumColors(t) = COLOR_COUNT /\ NumArrows(t) = ARROW_COUNT

\* Well-formed encodings for the two sides of a pair: every arrow on both
\* sides, one color on the source side against two on the target side.
SourceLetters == {"R", "P", "U", "S", "D"}
TargetLetters == {"R", "Y", "P", "U", "S", "D"}

SourceTangrams == {t \in [1..TANGRAM_SIZE -> SourceLetters] : WellFormed(t)}
TargetTangrams == {t \in [1..TANGRAM_SIZE -> TargetLetters] : WellFormed(t)}

----------------------------------------------------------------------------
(* Stand-alone call of validate_tangram on any string *)

Idle ==
    /\ wz_tangrams = <<>> /\ codm_tangrams = <<>> /\ mapping = <<>>
    /\ tangram_set = "wz" /\ k = 1 /\ validated = {} /\ pair_args = <<>>

InitSolo ==
    /\ Idle
    /\ tangram1 \in Strings
    /\ tangram2 = <<>>
    /\ pc = "call"
    /\ result = OK

CallValidateTangram ==
    /\ pc = "call"
    /\ result' = validate_tangram(tangram1)
    /\ pc' = "done"
    /\ UNCHANGED <<wz_tangrams, codm_tangrams, mapping, tangram_set, k,
                   validated, pair_args, tangram1, tangram2>>

NextSolo == CallValidateTangram

SpecSolo == InitSolo /\ [][NextSolo]_vars

----------------------------------------------------------------------------
(* Stand-alone call of validate_tangram_pair on two well-formed encodings *)

InitPair ==
    /\ Idle
    /\ tangram1 \in SourceTangrams
    /\ tangram2 \in TargetTangrams
    /\ pc = "call"
    /\ result = OK

CallValidateTangramPair ==
    /\ pc = "call"
    /\ result' = validate_tangram_pair(tangram1, tangram2)
    /\ pc' = "done"
    /\ UNCHANGED <<wz_tangrams, codm_tangrams, mapping, tangram_set, k,
                   validated, pair_args, tangram1, tangram2>>

NextPair == CallValidateTangramPair

SpecPair == InitPair /\ [][NextPair]_vars

----------------------------------------------------------------------------
(* Dictionaries as lists of <<key, value>> items in iteration order *)

Range(list) == {list[n] : n \in DOMAIN list}

dict_keys(d) == {d[n][1] : n \in DOMAIN d}

dict_values(d) == {d[n][2] : n \in DOMAIN d}

\* d.get(key, None) is not None
dict_has(d, key) == key \in dict_keys(d)

\* d[key], for a key of d
dict_at(d, key) == (CHOOSE item \in Range(d) : item[1] = key)[2]

----------------------------------------------------------------------------
(* Inputs of validate_tangrams *)

WzNames == {1, 2}
CodmNames == {"a", "b"}
MaxEntries == Cardinality(WzNames)

\* Encodings the data files may hold: a well-formed one, its partner under
\* the arrow opposites, one with a letter outside the alphabet, one with
\* the arrows elsewhere, one too short.
EncodingPool == <<
    <<"R", "Y", "B", "B", "P", "S">>,
    <<"R", "Y", "B", "B", "S", "P">>,
    <<"R", "Y", "B", "B", "P", "X">>,
    <<"P", "S", "R", "Y", "B", "B">>,
    <<"R", "Y", "B">> >>

Encodings == {EncodingPool[n] : n \in 1..Min(NumEncodings, Len(EncodingPool))}

\* Every dict with keys among `keys` and values among `values`, in every
\* iteration order.
Dicts(keys, values) ==
    UNION {{d \in [1..n -> keys \X values] :
                \A p, q \in 1..n : p # q => d[p][1] # d[q][1]} : n \in 0..MaxEntries}

----------------------------------------------------------------------------
(* validate_tangrams *)

Init ==
    /\ wz_tangrams \in Dicts(WzNames, Encodings)
    /\ codm_tangrams \in Dicts(CodmNames, Encodings)
    /\ mapping \in Dicts(WzNames, CodmNames \cup {""})
    /\ pc = "phase1"
    /\ tangram_set = "wz"
    /\ k = 1
    /\ validated = {}
    /\ pair_args = <<>>
    /\ tangram1 = <<>>
    /\ tangram2 = <<>>
    /\ result = OK

tangram_list == IF tangram_set = "wz" THEN wz_tangrams ELSE codm_tangrams

mapping_tangram_names(set) ==
    IF set = "wz" THEN dict_keys(mapping) ELSE dict_values(mapping)

\* CheckEntry without the membership check.
CheckEntry_no_membership ==
    /\ pc = "phase1"
    /\ k <= Len(tangram_list)
    /\ LET tangram_name == tangram_list[k][1]
           tangram == tangram_list[k][2]
           e == validate_tangram(tangram)
       IN  IF e # OK
           THEN /\ result' = ValidationExceptionFrom("Bad solo",
                                                     <<tangram_set, tangram_name>>, e)
                /\ pc' = "raised"
                /\ UNCHANGED <<k, validated>>
           ELSE /\ validated' = validated \cup {<<tangram_set, tangram_name>>}
                /\ k' = k + 1
                /\ UNCHANGED <<pc, result>>
    /\ UNCHANGED <<wz_tangrams, codm_tangrams, mapping, tangram_set, pair_args,
                   tangram1, tangram2>>

\* CheckEntry with the membership check made before validate_tangram.
CheckEntry_membership_first ==
    /\ pc = "phase1"
    /\ k <= Len(tangram_list)
    /\ LET tangram_name == tangram_list[k][1]
           tangram == tangram_list[k][2]
           e == validate_tangram(tangram)
       IN  IF tangram_name \notin mapping_tangram_names(tangram_set)
           THEN /\ result' = ValidationException("Tangram not in mapping.csv",
                                                 <<tangram_set, tangram_name>>)
                /\ pc' = "raised"
                /\ UNCHANGED <<k, validated>>
           ELSE IF e # OK
           THEN /\ result' = ValidationExceptionFrom("Bad solo",
                                                     <<tangram_set, tangram_name>>, e)
                /\ pc' = "raised"
                /\ UNCHANGED <<k, validated>>
           ELSE /\ validated' = validated \cup {<<tangram_set, tangram_name>>}
                /\ k' = k + 1
                /\ UNCHANGED <<pc, result>>
    /\ UNCHANGED <<wz_tangrams, codm_tangrams, mapping, tangram_set, pair_args,
                   tangram1, tangram2>>

\* CheckEntry that swallows the exception of validate_tangram.
CheckEntry_swallow ==
    /\ pc = "phase1"
    /\ k <= Len(tangram_list)
    /\ LET tangram_name == tangram_list[k][1]
           tangram == tangram_list[k][2]
           e == validate_tangram(tangram)
       IN  /\ validated' = IF e = OK
                           THEN validated \cup {<<tangram_set, tangram_name>>}
                           ELSE validated
           /\ IF tangram_name \notin mapping_tangram_names(tangram_set)
              THEN /\ result' = ValidationException("Tangram not in mapping.csv",
                                                    <<tangram_set, tangram_name>>)
                   /\ pc' = "raised"
                   /\ UNCHANGED k
              ELSE /\ k' = k + 1
                   /\ UNCHANGED <<pc, result>>
    /\ UNCHANGED <<wz_tangrams, codm_tangrams, mapping, tangram_set, pair_args,
                   tangram1, tangram2>>

\* One iteration of the inner loop of phase 1: validate_tangram on the entry,
\* then the membership check on its name.
CheckEntry ==
    /\ pc = "phase1"
    /\ k <= Len(tangram_list)
    /\ LET tangram_name == tangram_list[k][1]
           tangram == tangram_list[k][2]
           e == validate_tangram(tangram)
       IN  IF e # OK
           THEN /\ result' = ValidationExceptionFrom("Bad solo",
                                                     <<tangram_set, tangram_name>>, e)
                /\ pc' = "raised"
                /\ UNCHANGED <<k, validated>>
           ELSE /\ validated' = validated \cup {<<tangram_set, tangram_name>>}
                /\ IF tangram_name \notin mapping_tangram_names(tangram_set)
                   THEN /\ result' = ValidationException("Tangram not in mapping.csv",
                                                         <<tangram_set, tangram_name>>)
                        /\ pc' = "raised"
                        /\ UNCHANGED k
                   ELSE /\ k' = k + 1
                        /\ UNCHANGED <<pc, result>>
    /\ UNCHANGED <<wz_tangrams, codm_tangrams, mapping, tangram_set, pair_args,
                   tangram1, tangram2>>

\* NextSet of an outer loop over the wz set alone.
NextSet_wz_only ==
    /\ pc = "phase1"
    /\ k > Len(tangram_list)
    /\ pc' = "phase2"
    /\ k' = 1
    /\ UNCHANGED <<wz_tangrams, codm_tangrams, mapping, tangram_set, validated,
                   pair_args, tangram1, tangram2, result>>

\* The inner loop of phase 1 is exhausted: on to the codm set, or to phase 2.
NextSet ==
    /\ pc = "phase1"
    /\ k > Len(tangram_list)
    /\ IF tangram_set = "wz"
       THEN tangram_set' = "codm" /\ pc' = pc
       ELSE tangram_set' = tangram_set /\ pc' = "phase2"
    /\ k' = 1
    /\ UNCHANGED <<wz_tangrams, codm_tangrams, mapping, validated, pair_args,
                   tangram1, tangram2, result>>

\* CheckPair with the lookups made before the test for an empty codm name.
CheckPair_lookup_first ==
    /\ pc = "phase2"
    /\ k <= Len(mapping)
    /\ LET wz_tangram_name == mapping[k][1]
           codm_tangram_name == mapping[k][2]
       IN  IF ~dict_has(wz_tangrams, wz_tangram_name)
           THEN /\ result' = ValidationException("Missing wz tangram",
                                                 <<wz_tangram_name>>)
                /\ pc' = "raised"
                /\ UNCHANGED <<k, pair_args>>
           ELSE IF codm_tangram_name = ""
           THEN /\ k' = k + 1
                /\ UNCHANGED <<pc, result, pair_args>>
           ELSE IF ~dict_has(codm_tangrams, codm_tangram_name)
           THEN /\ result' = ValidationException("Missing codm tangram",
                                                 <<codm_tangram_name>>)
                /\ pc' = "raised"
                /\ UNCHANGED <<k, pair_args>>
           ELSE LET wz_tangram == dict_at(wz_tangrams, wz_tangram_name)
                    codm_tangram == dict_at(codm_tangrams, codm_tangram_name)
                    e == validate_tangram_pair(wz_tangram, codm_tangram)
                IN  /\ pair_args' = <<wz_tangram_name, codm_tangram_name,
                                      wz_tangram, codm_tangram>>
                    /\ IF e = OK
                       THEN k' = k + 1 /\ UNCHANGED <<pc, result>>
                       ELSE IF e.exc = "ValidationException"
                       THEN /\ result' = ValidationExceptionFrom("Bad pair",
                                    <<wz_tangram_name, codm_tangram_name>>, e)
                            /\ pc' = "raised"
                            /\ UNCHANGED k
                       ELSE /\ result' = e
                            /\ pc' = "raised"
                            /\ UNCHANGED k
    /\ UNCHANGED <<wz_tangrams, codm_tangrams, mapping, tangram_set, validated,
                   tangram1, tangram2>>

\* One iteration of the loop of phase 2 over mapping.items().
CheckPair ==
    /\ pc = "phase2"
    /\ k <= Len(mapping)
    /\ LET wz_tangram_name == mapping[k][1]
           codm_tangram_name == mapping[k][2]
       IN  IF codm_tangram_name = ""
           THEN /\ k' = k + 1
                /\ UNCHANGED <<pc, result, pair_args>>
           ELSE IF ~dict_has(wz_tangrams, wz_tangram_name)
           THEN /\ result' = ValidationException("Missing wz tangram",
                                                 <<wz_tangram_name>>)
                /\ pc' = "raised"
                /\ UNCHANGED <<k, pair_args>>
           ELSE IF ~dict_has(codm_tangrams, codm_tangram_name)
           THEN /\ result' = ValidationException("Missing codm tangram",
                                                 <<codm_tangram_name>>)
                /\ pc' = "raised"
                /\ UNCHANGED <<k, pair_args>>
           ELSE LET wz_tangram == dict_at(wz_tangrams, wz_tangram_name)
                    codm_tangram == dict_at(codm_tangrams, codm_tangram_name)
                    e == validate_tangram_pair(wz_tangram, codm_tangram)
                IN  /\ pair_args' = <<wz_tangram_name, codm_tangram_name,
                                      wz_tangram, codm_tangram>>
                    /\ IF e = OK
                       THEN k' = k + 1 /\ UNCHANGED <<pc, result>>
                       ELSE IF e.exc = "ValidationException"
                       THEN /\ result' = ValidationExceptionFrom("Bad pair",
                                    <<wz_tangram_name, codm_tangram_name>>, e)
                            /\ pc' = "raised"
                            /\ UNCHANGED k
                       ELSE /\ result' = e
                            /\ pc' = "raised"
                            /\ UNCHANGED k
    /\ UNCHANGED <<wz_tangrams, codm_tangrams, mapping, tangram_set, validated,
                   tangram1, tangram2>>

\* The loop of phase 2 is exhausted: validate_tangrams returns None.
Return ==
    /\ pc = "phase2"
    /\ k > Len(mapping)
    /\ pc' = "returned"
    /\ UNCHANGED <<wz_tangrams, codm_tangrams, mapping, tangram_set, k, validated,
                   pair_args, tangram1, tangram2, result>>

Next == CheckEntry \/ NextSet \/ CheckPair \/ Return

Spec == Init /\ [][Next]_vars

----------------------------------------------------------------------------
(* Properties of validate_tangram, under SpecSolo *)

Outside(t) == {i \in DOMAIN t : t[i] \notin Colors \cup Arrows}

FirstOutside(t) == CHOOSE i \in Outside(t) : \A j \in Outside(t) : i <= j

\* C2: validate_tangram succeeds exactly on the strings of length 6 with
\* exactly 4 color letters and exactly 2 arrow letters.
C2_AcceptsExactlyWellFormed ==
    pc = "done" => ((result = OK) <=> WellFormed(tangram1))

C2_Witness ==
    pc = "done" /\ result = OK /\ WellFormed(tangram1)

\* C4 as claimed: every string, of any length, with a letter outside the
\* alphabet fails with "Invalid tangram letter".
C4_AnyLengthInvalidLetter ==
    (pc = "done" /\ Outside(tangram1) # {})
        => result.msg = "Invalid tangram letter"

\* C4 amended: a string with a letter outside the alphabet fails with
\* "Invalid tangram letter", carrying its first such letter, when its length
\* is 6, and with "Tangram size incorrect" when its length is not 6.
C4_InvalidLetterAtSize ==
    (pc = "done" /\ Outside(tangram1) # {})
        => IF Len(tangram1) = TANGRAM_SIZE
           THEN result = ValidationException("Invalid tangram letter",
                                             <<tangram1[FirstOutside(tangram1)]>>)
           ELSE result = ValidationException("Tangram size incorrect", <<>>)

C4_Witness ==
    /\ pc = "done"
    /\ Len(tangram1) = TANGRAM_SIZE
    /\ Cardinality(Outside(tangram1)) = 2
    /\ result.msg = "Invalid tangram letter"

\* C5 as claimed: a string of length 6 over the alphabet whose arrow count is
\* not 2 fails with "Incorrect arrow count".
C5_ArrowCountReported ==
    (/\ pc = "done"
     /\ Len(tangram1) = TANGRAM_SIZE
     /\ Outside(tangram1) = {}
     /\ NumArrows(tangram1) # ARROW_COUNT)
        => result.msg = "Incorrect arrow count"

\* C5 amended: a string of length 6 over the alphabet whose arrow count is
\* not 2 fails with "Incorrect color count", carrying its color count: the
\* color count is then not 4 and is tested first.
C5_ColorCountReported ==
    (/\ pc = "done"
     /\ Len(tangram1) = TANGRAM_SIZE
     /\ Outside(tangram1) = {}
     /\ NumArrows(tangram1) # ARROW_COUNT)
        => result = ValidationException("Incorrect color count",
                                        <<NumColors(tangram1)>>)

C5_Witness ==
    /\ pc = "done"
    /\ Len(tangram1) = TANGRAM_SIZE
    /\ Outside(tangram1) = {}
    /\ NumArrows(tangram1) = ARROW_COUNT + 1
    /\ result.msg = "Incorrect color count"

----------------------------------------------------------------------------
(* Properties of validate_tangram_pair, under SpecPair *)

\* 1-based position i is a mismatch of source s and target t.
Mismatch(s, t, i) ==
    \/ s[i] \in Colors /\ t[i] \notin Colors
    \/ s[i] \in Arrows /\ t[i] # ARROW_OPPOSITES[s[i]]

Mismatches(s, t) == {i \in 1..TANGRAM_SIZE : Mismatch(s, t, i)}

\* C3: on well-formed encodings validate_tangram_pair succeeds when no
\* position is a mismatch, and otherwise raises a ValidationException that
\* carries the smallest mismatching index (0-based), never a later one.
C3_FirstMismatchReported ==
    pc = "done" =>
        LET M == Mismatches(tangram1, tangram2) IN
        IF M = {}
        THEN result = OK
        ELSE /\ result.exc = "ValidationException"
             /\ \A i \in M : result.args[1] + 1 <= i
             /\ result.args[1] + 1 \in M

C3_Witness ==
    /\ pc = "done"
    /\ Cardinality(Mismatches(tangram1, tangram2)) >= 2
    /\ result.exc = "ValidationException"
    /\ \E i \in Mismatches(tangram1, tangram2) : result.args[1] + 1 < i
    /\ \E i \in 1..TANGRAM_SIZE :
          tangram1[i] \in Colors /\ tangram2[i] \in Colors /\ tangram1[i] # tangram2[i]

\* C8: ARROW_OPPOSITES is an involution; on well-formed encodings
\* validate_tangram_pair(a, b) succeeds iff validate_tangram_pair(b, a) does;
\* and when it succeeds b holds the opposite arrow wherever a holds an arrow.
C8_SymmetricUnderOpposites ==
    /\ \A x \in DOMAIN ARROW_OPPOSITES : ARROW_OPPOSITES[ARROW_OPPOSITES[x]] = x
    /\ pc = "done" =>
        /\ (result = OK) <=> (validate_tangram_pair(tangram2, tangram1) = OK)
        /\ result = OK =>
              \A i \in 1..TANGRAM_SIZE :
                  tangram1[i] \in Arrows => tangram2[i] = ARROW_OPPOSITES[tangram1[i]]

C8_Witness ==
    /\ pc = "done"
    /\ result = OK
    /\ validate_tangram_pair(tangram2, tangram1) = OK
    /\ \E i \in 1..TANGRAM_SIZE : tangram1[i] = "U" /\ tangram2[i] = "D"

----------------------------------------------------------------------------
(* Properties of validate_tangrams, under Spec *)

Terminated == pc \in {"returned", "raised"}

list_of(set) == IF set = "wz" THEN wz_tangrams ELSE codm_tangrams

Sets == {"wz", "codm"}

\* Entry n of `set` is syntactically bad / has a name absent from the mapping.
Bad(set, n) == ~WellFormed(list_of(set)[n][2])

Unmapped(set, n) ==
    IF set = "wz"
    THEN wz_tangrams[n][1] \notin dict_keys(mapping)
    ELSE codm_tangrams[n][1] \notin dict_values(mapping)

\* Entry n of `set` is iterated before entry m of `set2`.
Before(set, n, set2, m) ==
    \/ set = "wz" /\ set2 = "codm"
    \/ set = set2 /\ n < m

\* Entry n of `set` is the first entry phase 1 can fail on.
FirstOffender(set, n) ==
    /\ Bad(set, n) \/ Unmapped(set, n)
    /\ \A set0 \in Sets : \A m \in DOMAIN list_of(set0) :
          Before(set0, m, set, n) => ~Bad(set0, m) /\ ~Unmapped(set0, m)

\* The three conditions of C1.
AllEntriesValid ==
    /\ \A n \in DOMAIN wz_tangrams : validate_tangram(wz_tangrams[n][2]) = OK
    /\ \A n \in DOMAIN codm_tangrams : validate_tangram(codm_tangrams[n][2]) = OK

AllNamesMapped ==
    /\ dict_keys(wz_tangrams) \subseteq dict_keys(mapping)
    /\ dict_keys(codm_tangrams) \subseteq dict_values(mapping)

AllPairsConsistent ==
    \A n \in DOMAIN mapping :
        mapping[n][2] # "" =>
            /\ mapping[n][1] \in dict_keys(wz_tangrams)
            /\ mapping[n][2] \in dict_keys(codm_tangrams)
            /\ validate_tangram_pair(dict_at(wz_tangrams, mapping[n][1]),
                                     dict_at(codm_tangrams, mapping[n][2])) = OK

\* C1: validate_tangrams always ends; it returns exactly when all entries
\* pass validate_tangram, all names are mapped and all complete mapping
\* entries name a consistent pair; otherwise it raises one
\* ValidationException and does nothing more.
C1_SuccessIffAllChecksPass ==
    /\ ~Terminated => ENABLED Next
    /\ pc = "returned" =>
          result = OK /\ AllEntriesValid /\ AllNamesMapped /\ AllPairsConsistent
    /\ pc = "raised" =>
          /\ ~(AllEntriesValid /\ AllNamesMapped /\ AllPairsConsistent)
          /\ result.exc = "ValidationException"
          /\ ~ENABLED Next

C1_Witness ==
    /\ pc = "returned"
    /\ Len(wz_tangrams) = MaxEntries
    /\ \E n \in DOMAIN mapping : mapping[n][2] = ""
    /\ pair_args # <<>>

\* C6 as claimed: whenever a set holds a name absent from the mapping, the
\* run fails with "Tangram not in mapping.csv" naming such a set and entry.
C6_UnmappedAlwaysReported ==
    (/\ Terminated
     /\ \E set \in Sets : \E n \in DOMAIN list_of(set) : Unmapped(set, n))
        => /\ result.msg = "Tangram not in mapping.csv"
           /\ \E set \in Sets : \E n \in DOMAIN list_of(set) :
                 /\ Unmapped(set, n)
                 /\ result.args[1] = set
                 /\ result.args[2] = list_of(set)[n][1]

\* C6 amended: when the first entry in iteration order (the wz set, then the
\* codm set) that is syntactically bad or absent from the mapping is a
\* syntactically valid entry absent from the mapping, the run fails with
\* "Tangram not in mapping.csv" naming that set and entry, without a cause.
C6_FirstUnmappedReported ==
    Terminated =>
        \A set \in Sets : \A n \in DOMAIN list_of(set) :
            (FirstOffender(set, n) /\ ~Bad(set, n)) =>
                /\ pc = "raised"
                /\ result.msg = "Tangram not in mapping.csv"
                /\ result.cause = <<>>
                /\ result.args[1] = set
                /\ result.args[2] = list_of(set)[n][1]

C6_Witness ==
    /\ pc = "raised"
    /\ result.msg = "Tangram not in mapping.csv"
    /\ result.args[1] = "codm"
    /\ \E n \in DOMAIN codm_tangrams :
          /\ FirstOffender("codm", n) /\ ~Bad("codm", n)
          /\ \E m \in DOMAIN codm_tangrams : n < m /\ Bad("codm", m)

\* C7: a step of phase 2 on a mapping entry whose codm name is empty raises
\* nothing and moves on to the next mapping entry, whether or not its wz
\* name is in the wz set.
C7_EmptyTargetSkipped ==
    [][(pc = "phase2" /\ k <= Len(mapping) /\ mapping[k][2] = "")
          => (pc' = "phase2" /\ k' = k + 1 /\ result' = OK
              /\ pair_args' = pair_args)]_vars

C7_Witness ==
    /\ pc = "returned"
    /\ \E n \in DOMAIN mapping :
          mapping[n][2] = "" /\ mapping[n][1] \notin dict_keys(wz_tangrams)
    /\ \E n \in DOMAIN mapping : mapping[n][2] # ""

\* C9 as claimed: when a set holds both a syntactically bad entry and an
\* entry absent from the mapping (and the run did not fail on the set before
\* it), the run fails with "Bad solo" on a bad entry of that set, whatever
\* the iteration order.
C9_BadEntryBeforeAnyMembership ==
    Terminated =>
        \A set \in Sets :
            (/\ \E n \in DOMAIN list_of(set) : Bad(set, n)
             /\ \E n \in DOMAIN list_of(set) : Unmapped(set, n)
             /\ \A n \in DOMAIN wz_tangrams :
                   set = "codm" => ~Bad("wz", n) /\ ~Unmapped("wz", n))
            => /\ result.msg = "Bad solo"
               /\ result.args[1] = set
               /\ \E n \in DOMAIN list_of(set) :
                     Bad(set, n) /\ result.args[2] = list_of(set)[n][1]

\* C9 amended: each entry is validated before its own membership check and
\* entries are handled one at a time in iteration order (the wz set, then
\* the codm set): the run fails on the first entry that is syntactically bad
\* or absent from the mapping, with "Bad solo" caused by validate_tangram's
\* exception when that entry is bad (absent from the mapping or not), and
\* with "Tangram not in mapping.csv" when it is valid.
C9_FirstOffenderReported ==
    Terminated =>
        \A set \in Sets : \A n \in DOMAIN list_of(set) :
            FirstOffender(set, n) =>
                /\ pc = "raised"
                /\ result.args[1] = set
                /\ result.args[2] = list_of(set)[n][1]
                /\ IF Bad(set, n)
                   THEN /\ result.msg = "Bad solo"
                        /\ result.cause = <<validate_tangram(list_of(set)[n][2])>>
                   ELSE result.msg = "Tangram not in mapping.csv"

C9_Witness ==
    /\ pc = "raised"
    /\ result.msg = "Bad solo"
    /\ \E n \in DOMAIN wz_tangrams :
          /\ FirstOffender("wz", n) /\ Bad("wz", n) /\ Unmapped("wz", n)
          /\ \E m \in DOMAIN wz_tangrams : n < m /\ ~Bad("wz", m) /\ Unmapped("wz", m)

\* C10: validate_tangram_pair is called only on the encodings of a wz entry
\* and a codm entry that validate_tangram accepted earlier in the run; so
\* both have length 6, every letter of the first that is not a color is an
\* arrow, and no KeyError is raised.
C10_PairOnlyOnValidated ==
    /\ result.exc # "KeyError"
    /\ pair_args # <<>> =>
          /\ <<"wz", pair_args[1]>> \in validated
          /\ <<"codm", pair_args[2]>> \in validated
          /\ pair_args[3] = dict_at(wz_tangrams, pair_args[1])
          /\ pair_args[4] = dict_at(codm_tangrams, pair_args[2])
          /\ Len(pair_args[3]) = TANGRAM_SIZE
          /\ Len(pair_args[4]) = TANGRAM_SIZE
          /\ \A i \in 1..TANGRAM_SIZE :
                pair_args[3][i] \notin Colors => pair_args[3][i] \in DOMAIN ARROW_OPPOSITES

C10_Witness ==
    /\ pc = "raised"
    /\ result.msg = "Bad pair"
    /\ pair_args # <<>>
    /\ <<"wz", pair_args[1]>> \in validated
    /\ <<"codm", pair_args[2]>> \in validated

====
